---- MODULE Spec2Model ----
(***************************************************************************)
(* Serving contract of the Russian News Summarizer API (src/api/main.py)   *)
(* and of its Streamlit client (src/streamlit_app.py).                     *)
(*                                                                         *)
(* The API is one asyncio event loop.  startup_event and the three route   *)
(* handlers are `async def` bodies that contain no `await`, so each of     *)
(* them occupies the loop from its first line to its last, the blocking    *)
(* calls pipeline(...) and summarizer(...) included.  The model has a      *)
(* state in the middle of each of these two blocking calls, because that   *)
(* is where requests of other clients arrive.                              *)
(*                                                                         *)
(* Two specifications share the actions.  Spec has MaxInFlight clients     *)
(* whose requests interleave and draws the request bodies from a few       *)
(* representative ones; SerialSpec has one client and draws the bodies     *)
(* from every side of every limit of SummarizeRequest.                     *)
(*                                                                         *)
(* Strings are represented by their character counts: the handlers read    *)
(* nothing of a text or of a summary but len(...).                         *)
(***************************************************************************)
EXTENDS Integers, FiniteSets, Sequences, TLC

\* ---------------------------------------------------------------- constants
MinTextLength == 50
MaxTextLength == 5000
DefaultMaxLength == 100
MinMaxLength == 30
MaxMaxLength == 300
WordRatio == 3
CapCeiling == 100
MinGeneration == 20
RatioScale == 100

\* ------------------------------------------------------------------- bounds
\* Requests that can be in flight (sent and not yet answered) at a time.
MaxInFlight == 2
\* Summaries of 0 .. MaxSummaryLen characters are returned by the model.
MaxSummaryLen == 3
\* The count of failed inferences is remembered up to this many.
MaxFailures == 2


\* ------------------------------------------------------------------- inputs
\* The max_length member of a JSON body: left out, null, or an integer.
Absent == [tag |-> "absent", val |-> 0]
Null == [tag |-> "null", val |-> 0]
IntOf(n) == [tag |-> "int", val |-> n]

TextLens ==
    { MinTextLength - 1, MinTextLength, MinTextLength + 1,
      MaxTextLength, MaxTextLength + 1 }

MaxLengthInputs ==
    { Absent, Null } \cup
    { IntOf(n) : n \in { MinMaxLength - 1, MinMaxLength,
                         MinGeneration * WordRatio,
                         MaxMaxLength, MaxMaxLength + 1 } }

\* Besides the short summaries, two lengths at which originalLength /
\* summaryLength falls exactly between two hundredths: 51 / 8 = 6.375, a
\* binary fraction, and 51 / 40 = 1.275, which is none.
SummaryLens == (0 .. MaxSummaryLen) \cup { 8, 40 }

\* The bodies of the interleaving specification: a text too short and a valid
\* one; max_length left out, null or 30; an empty and a one-character summary.
PlainTextLens == { MinTextLength - 1, MinTextLength }
PlainMaxLengthInputs == { Absent, Null, IntOf(MinMaxLength) }
PlainSummaryLens == { 0, 1 }

Causes == { "tokenizer error", "numerical failure" }
Kinds == { "root", "health", "summarize" }

\* -------------------------------------------------------------------- state
VARIABLES
    summarizer,         \* the global model handle: "None" or "pipeline"
    startup,            \* startup_event: "pending", "running" or "done"
    loadCalls,          \* how many times pipeline(...) has been called
    slots,              \* the requests in flight
    lastResp,           \* the answer produced last, with the request it answers
    inferenceFailures   \* failed inferences so far (up to MaxFailures)

vars == << summarizer, startup, loadCalls, slots, lastResp, inferenceFailures >>

Min(a, b) == IF a <= b THEN a ELSE b
Max(a, b) == IF a >= b THEN a ELSE b

\* The spec's EngineState, read off the nullable handle and the startup hook.
EngineState ==
    IF summarizer # "None" THEN "Ready"
    ELSE IF startup = "done" THEN "Failed"
    ELSE "Loading"

FreeSlot ==
    [ st |-> "free", kind |-> "none", arrivedIn |-> "none",
      text |-> 0, raw |-> Absent, cap |-> 0, minLen |-> 0 ]

NoResp ==
    [ kind |-> "none", code |-> 0, arrivedIn |-> "none", servedIn |-> "none",
      text |-> 0, raw |-> Absent, engine |-> "not called",
      detail |-> << >>, status |-> "", model_loaded |-> FALSE,
      summary |-> 0, original_length |-> 0, summary_length |-> 0,
      compression_ratio |-> 0 ]

Slots == DOMAIN slots

Running == { r \in Slots : slots[r].st = "running" }

\* ------------------------------------------------------- request validation
ValidText(text) == MinTextLength <= text /\ text <= MaxTextLength

\* Optional[int] with ge/le: the bounds apply to an integer, None passes.
ValidMaxLength(raw) ==
    \/ raw.tag \in { "absent", "null" }
    \/ raw.tag = "int" /\ MinMaxLength <= raw.val /\ raw.val <= MaxMaxLength

ValidRequest(text, raw) == ValidText(text) /\ ValidMaxLength(raw)

\* request.max_length as the handler sees it: the default when left out.
ParsedMaxLength(raw) ==
    IF raw.tag = "absent" THEN IntOf(DefaultMaxLength) ELSE raw

GenerationCap(maxLength) == Min(CapCeiling, maxLength \div WordRatio)

\* ------------------------------------------------------------------ metrics
RECURSIVE IsPowerOfTwo(_)
IsPowerOfTwo(n) ==
    IF n = 1 THEN TRUE
    ELSE IF n % 2 = 1 THEN FALSE
    ELSE IsPowerOfTwo(n \div 2)

RECURSIVE Gcd(_, _)
Gcd(a, b) == IF b = 0 THEN a ELSE Gcd(b, a % b)

\* round(o / d, 2) in hundredths, as the set of values it can take.  o / d is
\* the double nearest to the quotient and round() rounds that double's exact
\* value, half to even.  When the quotient lies exactly between two
\* hundredths and is a binary fraction, the double is the quotient and the
\* even hundredth is taken; when it is no binary fraction, the double lies a
\* little to one side of the tie and round() follows it: either neighbour.
Round2(o, d) ==
    LET q == (RatioScale * o) \div d
        rem == (RatioScale * o) % d
    IN  IF 2 * rem < d THEN { q }
        ELSE IF 2 * rem > d THEN { q + 1 }
        ELSE IF IsPowerOfTwo(d \div Gcd(o, d))
             THEN { IF q % 2 = 0 THEN q ELSE q + 1 }
             ELSE { q, q + 1 }

\* ---------------------------------------------------------------- scheduling
\* As if the handler were a plain `def`, run in the thread pool: the loop is
\* free while a call of summarizer(...) is in progress.
LoopFreeThreaded == startup = "done"

\* The event loop runs one coroutine at a time and the request handlers run
\* after the startup hook has returned.
LoopFree == startup = "done" /\ Running = {}

Pending(r, kind) == slots[r].st = "pending" /\ slots[r].kind = kind

Respond(r, resp) ==
    /\ lastResp' = [ resp EXCEPT !.arrivedIn = slots[r].arrivedIn ]
    /\ slots' = [ slots EXCEPT ![r] = FreeSlot ]

\* ------------------------------------------------------------------ startup
Init ==
    /\ summarizer = "None"
    /\ startup = "pending"
    /\ loadCalls = 0
    /\ slots = [ r \in 1 .. MaxInFlight |-> FreeSlot ]
    /\ lastResp = NoResp
    /\ inferenceFailures = 0

\* The same process with a single client.
InitSerial ==
    /\ summarizer = "None"
    /\ startup = "pending"
    /\ loadCalls = 0
    /\ slots = [ r \in { 1 } |-> FreeSlot ]
    /\ lastResp = NoResp
    /\ inferenceFailures = 0

\* startup_event up to the call of pipeline(...).
StartupBegin ==
    /\ startup = "pending"
    /\ startup' = "running"
    /\ loadCalls' = loadCalls + 1
    /\ UNCHANGED << summarizer, slots, lastResp, inferenceFailures >>

\* pipeline(...) returns and the handle is assigned.
LoadSucceed ==
    /\ startup = "running"
    /\ summarizer' = "pipeline"
    /\ startup' = "done"
    /\ UNCHANGED << loadCalls, slots, lastResp, inferenceFailures >>

\* pipeline(...) raises: the except branch prints and leaves the handle None.
LoadFail ==
    /\ startup = "running"
    /\ startup' = "done"
    /\ UNCHANGED << summarizer, loadCalls, slots, lastResp, inferenceFailures >>

\* ----------------------------------------------------------------- requests
\* A client sends a request.  It waits for the event loop; its body is read
\* when the loop takes it up.
Arrive(r, kind) ==
    /\ slots[r].st = "free"
    /\ slots' = [ slots EXCEPT ![r] =
                    [ FreeSlot EXCEPT !.st = "pending", !.kind = kind,
                                      !.arrivedIn = EngineState ] ]
    /\ UNCHANGED << summarizer, startup, loadCalls, lastResp, inferenceFailures >>

\* While the startup hook has not returned the server may not be listening
\* yet: the client's connection is then refused.
Refuse(r) ==
    /\ slots[r].st = "pending"
    /\ startup # "done"
    /\ Respond(r, [ NoResp EXCEPT !.kind = slots[r].kind,
                                  !.servedIn = EngineState,
                                  !.detail = << "connection refused" >> ])
    /\ UNCHANGED << summarizer, startup, loadCalls, inferenceFailures >>

Root(r) ==
    /\ LoopFree
    /\ Pending(r, "root")
    /\ Respond(r, [ NoResp EXCEPT !.kind = "root", !.code = 200,
                                  !.servedIn = EngineState,
                                  !.detail = << "Russian News Summarizer API", "1.0.0" >> ])
    /\ UNCHANGED << summarizer, startup, loadCalls, inferenceFailures >>

\* As if health reported the startup hook having run, not the handle.
HealthCheckOfStartup(r) ==
    /\ LoopFree
    /\ Pending(r, "health")
    /\ Respond(r, [ NoResp EXCEPT
                      !.kind = "health", !.code = 200,
                      !.servedIn = EngineState,
                      !.status = IF startup = "done" THEN "healthy" ELSE "unhealthy",
                      !.model_loaded = (startup = "done") ])
    /\ UNCHANGED << summarizer, startup, loadCalls, inferenceFailures >>

HealthCheck(r) ==
    /\ LoopFree
    /\ Pending(r, "health")
    /\ Respond(r, [ NoResp EXCEPT
                      !.kind = "health", !.code = 200,
                      !.servedIn = EngineState,
                      !.status = IF summarizer # "None" THEN "healthy" ELSE "unhealthy",
                      !.model_loaded = (summarizer # "None") ])
    /\ UNCHANGED << summarizer, startup, loadCalls, inferenceFailures >>

SummarizeResp(text, raw) ==
    [ NoResp EXCEPT !.kind = "summarize", !.servedIn = EngineState,
                    !.text = text, !.raw = raw ]

\* The body fails SummarizeRequest: the framework answers 422 and the handler
\* body does not run.
SummarizeInvalid(r, text, raw) ==
    /\ LoopFree
    /\ Pending(r, "summarize")
    /\ ~ValidRequest(text, raw)
    /\ Respond(r, [ SummarizeResp(text, raw) EXCEPT
                      !.code = 422, !.detail = << "validation error" >> ])
    /\ UNCHANGED << summarizer, startup, loadCalls, inferenceFailures >>

\* As if the None check raised the status of the except branch.
SummarizeUnavailableAs500(r, text, raw) ==
    /\ LoopFree
    /\ Pending(r, "summarize")
    /\ ValidRequest(text, raw)
    /\ summarizer = "None"
    /\ Respond(r, [ SummarizeResp(text, raw) EXCEPT
                      !.code = 500, !.detail = << "model not loaded" >> ])
    /\ UNCHANGED << summarizer, startup, loadCalls, inferenceFailures >>

\* As if the None check loaded the model on demand.
SummarizeUnavailableReloads(r, text, raw) ==
    /\ LoopFree
    /\ Pending(r, "summarize")
    /\ ValidRequest(text, raw)
    /\ summarizer = "None"
    /\ summarizer' = "pipeline"
    /\ Respond(r, [ SummarizeResp(text, raw) EXCEPT
                      !.code = 503, !.detail = << "model not loaded" >> ])
    /\ UNCHANGED << startup, loadCalls, inferenceFailures >>

\* summarize: the handle is None.
SummarizeUnavailable(r, text, raw) ==
    /\ LoopFree
    /\ Pending(r, "summarize")
    /\ ValidRequest(text, raw)
    /\ summarizer = "None"
    /\ Respond(r, [ SummarizeResp(text, raw) EXCEPT
                      !.code = 503, !.detail = << "model not loaded" >> ])
    /\ UNCHANGED << summarizer, startup, loadCalls, inferenceFailures >>

\* summarize: request.max_length is None, so `request.max_length // 3` raises
\* TypeError while the arguments of summarizer(...) are evaluated; the except
\* branch answers 500.
SummarizeArgError(r, text, raw) ==
    /\ LoopFree
    /\ Pending(r, "summarize")
    /\ ValidRequest(text, raw)
    /\ summarizer # "None"
    /\ ParsedMaxLength(raw).tag = "null"
    /\ Respond(r, [ SummarizeResp(text, raw) EXCEPT
                      !.code = 500,
                      !.detail = << "processing error", "TypeError" >> ])
    /\ UNCHANGED << summarizer, startup, loadCalls, inferenceFailures >>

\* summarize: the handler calls summarizer(text, max_length = ..., min_length =
\* 20, do_sample = False) and stays in the call.
SummarizeInvoke(r, text, raw) ==
    /\ LoopFree
    /\ Pending(r, "summarize")
    /\ ValidRequest(text, raw)
    /\ summarizer # "None"
    /\ ParsedMaxLength(raw).tag = "int"
    /\ slots' = [ slots EXCEPT ![r] =
                    [ @ EXCEPT !.st = "running", !.text = text, !.raw = raw,
                               !.cap = GenerationCap(ParsedMaxLength(raw).val),
                               !.minLen = MinGeneration ] ]
    /\ UNCHANGED << summarizer, startup, loadCalls, lastResp, inferenceFailures >>

\* As if the ratio were original_length / summary_length, with no floor of
\* 1: an empty summary raises ZeroDivisionError into the except branch.
InferenceReturnNoFloor(r, summary) ==
    /\ slots[r].st = "running"
    /\ IF summary = 0
       THEN Respond(r, [ SummarizeResp(slots[r].text, slots[r].raw) EXCEPT
                           !.code = 500, !.engine = "returned",
                           !.summary = summary,
                           !.detail = << "processing error", "ZeroDivisionError" >> ])
       ELSE \E ratio \in Round2(slots[r].text, summary) :
               Respond(r, [ SummarizeResp(slots[r].text, slots[r].raw) EXCEPT
                              !.code = 200, !.engine = "returned",
                              !.summary = summary,
                              !.original_length = slots[r].text,
                              !.summary_length = summary,
                              !.compression_ratio = ratio ])
    /\ UNCHANGED << summarizer, startup, loadCalls, inferenceFailures >>

\* summarizer(...) returns a summary: metrics and the 200 answer.
InferenceReturn(r, summary) ==
    /\ slots[r].st = "running"
    /\ \E ratio \in Round2(slots[r].text, Max(summary, 1)) :
          Respond(r, [ SummarizeResp(slots[r].text, slots[r].raw) EXCEPT
                         !.code = 200, !.engine = "returned",
                         !.summary = summary,
                         !.original_length = slots[r].text,
                         !.summary_length = summary,
                         !.compression_ratio = ratio ])
    /\ UNCHANGED << summarizer, startup, loadCalls, inferenceFailures >>

\* As if the except branch dropped the handle of a model that has failed.
InferenceRaiseDropsModel(r, cause) ==
    /\ slots[r].st = "running"
    /\ Respond(r, [ SummarizeResp(slots[r].text, slots[r].raw) EXCEPT
                      !.code = 500, !.engine = "raised",
                      !.detail = << "processing error", cause >> ])
    /\ inferenceFailures' = Min(inferenceFailures + 1, MaxFailures)
    /\ summarizer' = "None"
    /\ UNCHANGED << startup, loadCalls >>

\* summarizer(...) raises: the except branch answers 500 with str(e).
InferenceRaise(r, cause) ==
    /\ slots[r].st = "running"
    /\ Respond(r, [ SummarizeResp(slots[r].text, slots[r].raw) EXCEPT
                      !.code = 500, !.engine = "raised",
                      !.detail = << "processing error", cause >> ])
    /\ inferenceFailures' = Min(inferenceFailures + 1, MaxFailures)
    /\ UNCHANGED << summarizer, startup, loadCalls >>

Next ==
    \/ StartupBegin
    \/ LoadSucceed
    \/ LoadFail
    \/ \E r \in Slots, kind \in Kinds : Arrive(r, kind)
    \/ \E r \in Slots : Refuse(r)
    \/ \E r \in Slots : Root(r)
    \/ \E r \in Slots : HealthCheck(r)
    \/ \E r \in Slots, text \in PlainTextLens, raw \in PlainMaxLengthInputs :
          SummarizeInvalid(r, text, raw)
    \/ \E r \in Slots, text \in PlainTextLens, raw \in PlainMaxLengthInputs :
          SummarizeUnavailable(r, text, raw)
    \/ \E r \in Slots, text \in PlainTextLens, raw \in PlainMaxLengthInputs :
          SummarizeArgError(r, text, raw)
    \/ \E r \in Slots, text \in PlainTextLens, raw \in PlainMaxLengthInputs :
          SummarizeInvoke(r, text, raw)
    \/ \E r \in Slots, summary \in PlainSummaryLens : InferenceReturn(r, summary)
    \/ \E r \in Slots, cause \in Causes : InferenceRaise(r, cause)

Spec == Init /\ [][Next]_vars

NextSerial ==
    \/ StartupBegin
    \/ LoadSucceed
    \/ LoadFail
    \/ \E r \in Slots, kind \in Kinds : Arrive(r, kind)
    \/ \E r \in Slots : Refuse(r)
    \/ \E r \in Slots : Root(r)
    \/ \E r \in Slots : HealthCheck(r)
    \/ \E r \in Slots, text \in TextLens, raw \in MaxLengthInputs :
          SummarizeInvalid(r, text, raw)
    \/ \E r \in Slots, text \in TextLens, raw \in MaxLengthInputs :
          SummarizeUnavailable(r, text, raw)
    \/ \E r \in Slots, text \in TextLens, raw \in MaxLengthInputs :
          SummarizeArgError(r, text, raw)
    \/ \E r \in Slots, text \in TextLens, raw \in MaxLengthInputs :
          SummarizeInvoke(r, text, raw)
    \/ \E r \in Slots, summary \in SummaryLens : InferenceReturn(r, summary)
    \/ \E r \in Slots, cause \in Causes : InferenceRaise(r, cause)

SerialSpec == InitSerial /\ [][NextSerial]_vars

\* The server runs the startup hook when it starts, and pipeline(...) returns
\* or raises.
LiveSpec ==
    /\ Spec
    /\ WF_vars(StartupBegin)
    /\ WF_vars(LoadSucceed \/ LoadFail)

\* ------------------------------------------------------------------- claims
Abs(x) == IF x >= 0 THEN x ELSE -x

\* A response that the server produced (a refused connection has code 0).
Answered(kind) == lastResp.kind = kind /\ lastResp.code # 0

\* C1: while the engine is not Ready, a summarize call with a valid request
\* ends with 503 and the engine is not invoked; a call is inside the engine,
\* and a 200 is produced, only while the engine is Ready.
C1_NotReadyIs503 ==
    /\ \A r \in Slots : slots[r].st = "running" => EngineState = "Ready"
    /\ ( /\ Answered("summarize")
         /\ ValidRequest(lastResp.text, lastResp.raw)
         /\ lastResp.servedIn # "Ready" )
       => lastResp.code = 503 /\ lastResp.engine = "not called"
    /\ (Answered("summarize") /\ lastResp.code = 200)
       => lastResp.servedIn = "Ready" /\ EngineState = "Ready"

C1_Witness ==
    /\ Answered("summarize")
    /\ ValidRequest(lastResp.text, lastResp.raw)
    /\ lastResp.servedIn = "Failed"
    /\ lastResp.code = 503

\* The request the claims call valid: a text of 50 to 5000 characters and a
\* maxLength that is an integer of 30 to 300 (100 when left out).
ClaimedValid(text, raw) ==
    /\ ValidText(text)
    /\ ParsedMaxLength(raw).tag = "int"
    /\ MinMaxLength <= ParsedMaxLength(raw).val
    /\ ParsedMaxLength(raw).val <= MaxMaxLength

\* C2: a summarize request whose text is shorter than 50 or longer than 5000
\* characters, or whose maxLength is not an integer within 30..300, ends with
\* 422 in every engine state, before the engine is invoked.
C2_InvalidIs422 ==
    (Answered("summarize") /\ ~ClaimedValid(lastResp.text, lastResp.raw))
    => lastResp.code = 422 /\ lastResp.engine = "not called"

\* C3: the engine state starts at Loading, the load is called at most once,
\* the state leaves Loading once the load ends, and the only changes of the
\* state are Loading -> Ready and Loading -> Failed: no step of any request
\* changes it.
C3_OneTransition ==
    /\ EngineState = "Loading"
    /\ [](loadCalls <= 1)
    /\ <>(EngineState # "Loading")
    /\ [][ EngineState' # EngineState
            => EngineState = "Loading" /\ EngineState' \in { "Ready", "Failed" } ]_vars

C3_Witness ==
    /\ EngineState = "Ready"
    /\ inferenceFailures >= 1
    /\ Answered("health")

\* C4: an inference that raises ends its call with 500 carrying the cause and
\* leaves the handle as it was; once inferences have failed the engine is
\* still Ready, the failed call no longer holds the loop, and an inference
\* that returns still ends with 200.
C4_FailureIsolated ==
    /\ [](lastResp.engine = "raised"
            => /\ lastResp.code = 500
               /\ lastResp.servedIn = "Ready"
               /\ Len(lastResp.detail) = 2
               /\ lastResp.detail[2] \in Causes)
    /\ [](inferenceFailures >= 1 => EngineState = "Ready")
    /\ [][ \A r \in Slots :
             (slots[r].st = "running" /\ slots'[r].st # "running")
             => /\ summarizer' = summarizer
                /\ slots'[r].st = "free"
                /\ lastResp'.engine \in { "raised", "returned" }
                /\ lastResp'.engine = "returned" => lastResp'.code = 200 ]_vars

C4_Witness ==
    /\ inferenceFailures >= 1
    /\ Answered("summarize")
    /\ lastResp.engine = "returned"
    /\ lastResp.code = 200

\* C5: every health answer is a 200 whose status is "healthy" exactly when
\* model_loaded is true, and model_loaded is true exactly when the engine is
\* Ready at the call.
C5_HealthIsReadiness ==
    Answered("health")
    => /\ lastResp.code = 200
       /\ lastResp.status \in { "healthy", "unhealthy" }
       /\ lastResp.status = "healthy" <=> lastResp.model_loaded
       /\ lastResp.model_loaded <=> lastResp.servedIn = "Ready"

C5_Witness ==
    /\ Answered("health")
    /\ lastResp.servedIn = "Failed"
    /\ lastResp.status = "unhealthy"
    /\ ~lastResp.model_loaded

\* C6: when the engine returns a summary the call ends with 200 where
\* original_length is the length of the text, summary_length the length of
\* the summary, and compression_ratio a hundredth nearest to original_length
\* / max(summary_length, 1); for an empty summary it is original_length.
C6_Metrics ==
    lastResp.engine = "returned"
    => /\ lastResp.code = 200
       /\ lastResp.original_length = lastResp.text
       /\ lastResp.summary_length = lastResp.summary
       /\ LET d == IF lastResp.summary >= 1 THEN lastResp.summary ELSE 1
          IN  2 * Abs(lastResp.compression_ratio * d - RatioScale * lastResp.text) <= d
       /\ lastResp.summary = 0
          => lastResp.compression_ratio = RatioScale * lastResp.text

C6_Witness ==
    /\ lastResp.engine = "returned"
    /\ lastResp.code = 200
    /\ lastResp.summary_length = 0
    /\ lastResp.compression_ratio = RatioScale * MaxTextLength

\* C7: while a summarize call is inside the inference, a health request that
\* has arrived can be served.
C7_HealthDuringInference ==
    \A r \in Slots :
        (Pending(r, "health") /\ Running # {}) => ENABLED HealthCheck(r)

\* C8: at most one call of the model is in progress at any time.
C8_OneInference == Cardinality(Running) <= 1

C8_Witness ==
    /\ Running # {}
    /\ \E r \in Slots : Pending(r, "summarize")

\* C9: the load is called at most once, and a summarize request that arrived
\* while the engine was Loading is answered 503, served while the engine is
\* still Loading.
C9_LoadingIs503 ==
    /\ loadCalls <= 1
    /\ ( /\ Answered("summarize")
         /\ ValidRequest(lastResp.text, lastResp.raw)
         /\ lastResp.arrivedIn = "Loading" )
       => lastResp.code = 503 /\ lastResp.servedIn = "Loading"

\* C10: the model is called with max_length = min(100, maxLength div 3) and
\* min_length = 20, and 20 <= max_length <= 100.
C10_CapWellFormed ==
    \A r \in Slots :
        slots[r].st = "running"
        => /\ slots[r].cap =
                Min(CapCeiling, ParsedMaxLength(slots[r].raw).val \div WordRatio)
           /\ slots[r].minLen = MinGeneration
           /\ MinGeneration <= slots[r].cap
           /\ slots[r].cap <= CapCeiling

====
